---- MODULE Spec2Model ----
(***************************************************************************)
(* Identifier generation and bulk application of app.py.                   *)
(*                                                                         *)
(* Python strings are sequences of Unicode code points, byte strings are   *)
(* sequences of 0..255, and a 32-bit word of SHA-256 is the pair           *)
(* <<high 16 bits, low 16 bits>>.                                          *)
(***************************************************************************)
EXTENDS Integers, Sequences, FiniteSets, TLC

VARIABLES
  args,            \* the seven arguments of a call of the generator
  result,          \* what that call returned or raised
  df,              \* the table handed to process_dataframe
  column_mapping,  \* logical field name -> column name
  pc,              \* where the bulk run stands
  unique_ids,      \* the list unique_ids when process_dataframe was left
  processed_df,    \* the table process_dataframe returned
  st_errors,       \* row numbers reported through st.error, in order
  stats            \* the figures of the Statistics section

vars ==
  <<args, result, df, column_mapping, pc, unique_ids, processed_df,
    st_errors, stats>>

(***************************************************************************)
(* hashlib.sha256 (FIPS 180-4)                                             *)
(***************************************************************************)
RECURSIVE XorBits(_, _, _)
XorBits(a, b, n) ==
  IF n = 0 THEN 0
  ELSE ((a + b) % 2) + 2 * XorBits(a \div 2, b \div 2, n - 1)

RECURSIVE AndBits(_, _, _)
AndBits(a, b, n) ==
  IF n = 0 THEN 0
  ELSE ((a % 2) * (b % 2)) + 2 * AndBits(a \div 2, b \div 2, n - 1)

XorNib == [a \in 0..15 |-> [b \in 0..15 |-> XorBits(a, b, 4)]]

AndNib == [a \in 0..15 |-> [b \in 0..15 |-> AndBits(a, b, 4)]]

Xor16(a, b) ==
    XorNib[a \div 4096][b \div 4096] * 4096
  + XorNib[(a \div 256) % 16][(b \div 256) % 16] * 256
  + XorNib[(a \div 16) % 16][(b \div 16) % 16] * 16
  + XorNib[a % 16][b % 16]

And16(a, b) ==
    AndNib[a \div 4096][b \div 4096] * 4096
  + AndNib[(a \div 256) % 16][(b \div 256) % 16] * 256
  + AndNib[(a \div 16) % 16][(b \div 16) % 16] * 16
  + AndNib[a % 16][b % 16]

WXor(x, y) == <<Xor16(x[1], y[1]), Xor16(x[2], y[2])>>

WAnd(x, y) == <<And16(x[1], y[1]), And16(x[2], y[2])>>

WNot(x) == <<65535 - x[1], 65535 - x[2]>>

WAdd(x, y) ==
  LET lo == x[2] + y[2]
  IN  <<(x[1] + y[1] + (lo \div 65536)) % 65536, lo % 65536>>

RECURSIVE ROTR(_, _)
ROTR(x, n) ==
  IF n >= 16 THEN ROTR(<<x[2], x[1]>>, n - 16)
  ELSE <<(x[1] \div (2^n)) + (x[2] % (2^n)) * (2^(16 - n)),
         (x[2] \div (2^n)) + (x[1] % (2^n)) * (2^(16 - n))>>

SHR(x, n) ==
  <<x[1] \div (2^n), (x[2] \div (2^n)) + (x[1] % (2^n)) * (2^(16 - n))>>

Ch(x, y, z) == WXor(WAnd(x, y), WAnd(WNot(x), z))

Maj(x, y, z) == WXor(WXor(WAnd(x, y), WAnd(x, z)), WAnd(y, z))

BigSigma0(x) == WXor(WXor(ROTR(x, 2), ROTR(x, 13)), ROTR(x, 22))

BigSigma1(x) == WXor(WXor(ROTR(x, 6), ROTR(x, 11)), ROTR(x, 25))

SmallSigma0(x) == WXor(WXor(ROTR(x, 7), ROTR(x, 18)), SHR(x, 3))

SmallSigma1(x) == WXor(WXor(ROTR(x, 17), ROTR(x, 19)), SHR(x, 10))

K256 ==
   <<
      <<17034, 12184>>, <<28983, 17553>>, <<46528, 64463>>, <<59829, 56229>>,
      <<14678, 49755>>, <<23025, 4593>>, <<37439, 33444>>, <<43804, 24277>>,
      <<55303, 43672>>, <<4739, 23297>>, <<9265, 34238>>, <<21772, 32195>>,
      <<29374, 23924>>, <<32990, 45566>>, <<39900, 1703>>, <<49563, 61812>>,
      <<58523, 27073>>, <<61374, 18310>>, <<4033, 40390>>, <<9228, 41420>>,
      <<11753, 11375>>, <<19060, 33962>>, <<23728, 43484>>, <<30457, 35034>>,
      <<38974, 20818>>, <<43057, 50797>>, <<45059, 10184>>, <<48985, 32711>>,
      <<50912, 3059>>, <<54695, 37191>>, <<1738, 25425>>, <<5161, 10599>>,
      <<10167, 2693>>, <<11803, 8504>>, <<19756, 28156>>, <<21304, 3347>>,
      <<25866, 29524>>, <<30314, 2747>>, <<33218, 51502>>, <<37490, 11397>>,
      <<41663, 59553>>, <<43034, 26187>>, <<49739, 35696>>, <<51052, 20899>>,
      <<53650, 59417>>, <<54937, 1572>>, <<62478, 13701>>, <<4202, 41072>>,
      <<6564, 49430>>, <<7735, 27656>>, <<10056, 30540>>, <<13488, 48309>>,
      <<14620, 3251>>, <<20184, 43594>>, <<23452, 51791>>, <<26670, 28659>>,
      <<29839, 33518>>, <<30885, 25455>>, <<33992, 30740>>, <<36039, 520>>,
      <<37054, 65530>>, <<42064, 27883>>, <<48889, 41975>>, <<50801, 30962>>
   >>

H0 ==
   <<
      <<27145, 58983>>, <<47975, 44677>>, <<15470, 62322>>, <<42319, 62778>>,
      <<20750, 21119>>, <<39685, 26764>>, <<8067, 55723>>, <<23520, 52505>>
   >>

Zeros(n) == [i \in 1..n |-> 0]

\* the message, 0x80, zero fill to 56 mod 64, and the bit length on 8 bytes
Pad(m) ==
  LET bits == 8 * Len(m)
  IN  m \o <<128>> \o Zeros((55 - Len(m)) % 64) \o Zeros(4)
        \o <<bits \div 16777216, (bits \div 65536) % 256,
             (bits \div 256) % 256, bits % 256>>

BlockWords(p, b) ==
  [t \in 1..16 |->
     LET o == 64 * (b - 1) + 4 * (t - 1)
     IN  <<p[o + 1] * 256 + p[o + 2], p[o + 3] * 256 + p[o + 4]>>]

\* the message schedule extended to n words; the range is split in halves
\* so that the evaluation depth stays logarithmic
RECURSIVE Schedule(_, _)
Schedule(w, n) ==
  LET t == Len(w) + 1
  IN  IF t > n THEN w
      ELSE IF t = n
        THEN Append(w, WAdd(WAdd(SmallSigma1(w[t - 2]), w[t - 7]),
                            WAdd(SmallSigma0(w[t - 15]), w[t - 16])))
        ELSE Schedule(Schedule(w, (t + n) \div 2), n)

\* one round of the compression function; s.v holds the working variables
\* a..h and s.t the round about to run
Round(s, w) ==
  LET v  == s.v
      T1 == WAdd(WAdd(WAdd(v[8], BigSigma1(v[5])), Ch(v[5], v[6], v[7])),
                 WAdd(K256[s.t], w[s.t]))
      T2 == WAdd(BigSigma0(v[1]), Maj(v[1], v[2], v[3]))
  IN  [t |-> s.t + 1,
       v |-> <<WAdd(T1, T2), v[1], v[2], v[3],
               WAdd(v[4], T1), v[5], v[6], v[7]>>]

\* rounds s.t..last, split in halves like Schedule
RECURSIVE Rounds(_, _, _)
Rounds(s, w, last) ==
  IF s.t = last THEN Round(s, w)
  ELSE Rounds(Rounds(s, w, (s.t + last) \div 2), w, last)

RECURSIVE Blocks(_, _, _)
Blocks(h, p, b) ==
  IF 64 * (b - 1) >= Len(p) THEN h
  ELSE LET s == Rounds([t |-> 1, v |-> h], Schedule(BlockWords(p, b), 64), 64).v
       IN  Blocks([i \in 1..8 |-> WAdd(h[i], s[i])], p, b + 1)

\* the digest as its 64 hexadecimal digits, most significant first
HexDigest(m) ==
  LET h == Blocks(H0, Pad(m), 1)
  IN  [i \in 1..64 |->
         LET half == h[((i - 1) \div 8) + 1][(((i - 1) \div 4) % 2) + 1]
         IN  (half \div (16^(3 - ((i - 1) % 4)))) % 16]

\* int(hexdigest, 16) % m: s.r is the value of the digits before s.i,
\* reduced modulo m; digits s.i..last are folded in, split in halves
HexStep(s, hex, m) == [i |-> s.i + 1, r |-> (s.r * 16 + hex[s.i]) % m]

RECURSIVE HexFold(_, _, _, _)
HexFold(s, hex, m, last) ==
  IF s.i = last THEN HexStep(s, hex, m)
  ELSE HexFold(HexFold(s, hex, m, (s.i + last) \div 2), hex, m, last)

IntHexMod(hex, m) == HexFold([i |-> 1, r |-> 0], hex, m, Len(hex)).r

(***************************************************************************)
(* Python values reaching the generator                                    *)
(***************************************************************************)
PyStr(s) == [k |-> "str", s |-> s, n |-> 0]

PyInt(n) == [k |-> "int", s |-> <<>>, n |-> n]

\* float('nan'), the missing cell of a DataFrame
NaN == [k |-> "nan", s |-> <<>>, n |-> 0]

None == [k |-> "none", s |-> <<>>, n |-> 0]

\* a Python list of two or more elements held in an object cell
PyList == [k |-> "list", s |-> <<>>, n |-> 0]

\* what Series.get returns for a label that occurs more than once
Series == [k |-> "series", s |-> <<>>, n |-> 0]

\* pd.notna(v) used as a condition: "T", "F", or "raise" when notna returns
\* an array or a Series, whose truth value is ambiguous (ValueError)
notna(v) ==
  CASE v.k \in {"str", "int"}     -> "T"
    [] v.k \in {"nan", "none"}    -> "F"
    [] v.k \in {"list", "series"} -> "raise"

RECURSIVE Decimal(_)
Decimal(n) ==
  IF n < 10 THEN <<48 + n>> ELSE Append(Decimal(n \div 10), 48 + (n % 10))

\* str(v) for the values notna lets through
str(v) == IF v.k = "int" THEN Decimal(v.n) ELSE v.s

\* str(v) without the null check: 'nan' and 'None'
NormalizeUnchecked(v) ==
  CASE v.k = "nan"  -> <<110, 97, 110>>
    [] v.k = "none" -> <<78, 111, 110, 101>>
    [] OTHER        -> str(v)

\* str(v) if pd.notna(v) else ""
Normalize(v) == IF notna(v) = "T" THEN str(v) ELSE <<>>

\* str.upper() of one character: ASCII and Latin-1 letters, with the
\* one-to-many mapping of U+00DF and the two Latin-1 letters whose capitals
\* lie outside Latin-1; every other modelled character has no case mapping
upper(c) ==
  CASE c \in 97..122                  -> <<c - 32>>
    [] c = 181                        -> <<924>>
    [] c = 223                        -> <<83, 83>>
    [] c \in 224..254 /\ c # 247      -> <<c - 32>>
    [] c = 255                        -> <<376>>
    [] OTHER                          -> <<c>>

\* str.encode() (UTF-8) of one character; lone surrogates cannot be encoded
IsSurrogate(c) == c \in 55296..57343

Utf8(c) ==
  CASE c < 128   -> <<c>>
    [] c < 2048  -> <<192 + (c \div 64), 128 + (c % 64)>>
    [] c < 65536 -> <<224 + (c \div 4096), 128 + ((c \div 64) % 64),
                      128 + (c % 64)>>
    [] OTHER     -> <<240 + (c \div 262144), 128 + ((c \div 4096) % 64),
                      128 + ((c \div 64) % 64), 128 + (c % 64)>>

RECURSIVE encode(_)
encode(s) == IF s = <<>> THEN <<>> ELSE Utf8(Head(s)) \o encode(Tail(s))

\* f"{n:05d}": the decimal digits, zero-padded on the left to width 5
Format05d(n) ==
  LET d == Decimal(n)
  IN  IF Len(d) >= 5 THEN d ELSE [i \in 1..(5 - Len(d)) |-> 48] \o d

Dash == 45

(***************************************************************************)
(* generate_deterministic_unique_id_with_initials                          *)
(***************************************************************************)
\* the initial of the first name even without a last name
InitialsFirstOnly(first, last) ==
  IF first # <<>>
    THEN upper(first[1]) \o (IF last # <<>> THEN upper(last[1]) ELSE <<>>)
    ELSE <<>>

Initials(first, last) ==
  IF first # <<>> /\ last # <<>>
    THEN upper(first[1]) \o upper(last[1])
    ELSE <<>>

\* both channels, one after the other
PrimaryContactBoth(phone, email) == phone \o email

PrimaryContact(phone, email) == IF phone # <<>> THEN phone ELSE email

CombinedString(first, middle, last, kendra, zone, contact) ==
  first \o middle \o last \o kendra \o zone \o contact

\* six digits kept instead of five
UniqueNumberSixDigits(bytes) == IntHexMod(HexDigest(bytes), 1000000)

UniqueNumber(bytes) == IntHexMod(HexDigest(bytes), 100000)

Returned(v) == [exc |-> "", ret |-> v]

Raised(e) == [exc |-> e, ret |-> <<>>]

generate_deterministic_unique_id_with_initials(first_name, middle_name, last_name, kendra, zone, email, phone) ==
  IF \E v \in {first_name, middle_name, last_name, kendra, zone, email, phone} :
       notna(v) = "raise"
    THEN Raised("ValueError")
    ELSE
      LET first    == Normalize(first_name)
          last     == Normalize(last_name)
          middle   == Normalize(middle_name)
          combined == CombinedString(first, middle, last, Normalize(kendra),
                        Normalize(zone),
                        PrimaryContact(Normalize(phone), Normalize(email)))
      IN  IF \E i \in 1..Len(combined) : IsSurrogate(combined[i])
            THEN Raised("UnicodeEncodeError")
            ELSE Returned(Initials(first, last) \o <<Dash>>
                            \o Format05d(UniqueNumber(encode(combined))))

(***************************************************************************)
(* process_dataframe                                                       *)
(***************************************************************************)
EmptyStr == PyStr(<<>>)

\* the literal "ERROR"
ERROR == <<69, 82, 82, 79, 82>>

\* Series.get(key, default) on a row whose labels are cols
RowGet(cols, row, key, default) ==
  LET hits == {i \in 1..Len(cols) : cols[i] = key}
  IN  IF hits = {} THEN default
      ELSE IF Cardinality(hits) = 1 THEN row[CHOOSE i \in hits : TRUE]
      ELSE Series

\* the body of the try block for one row: the seven look-ups and the call.
\* column_mapping[...] raises KeyError for a missing key; only 'phone' is
\* read with .get
TryRow(cols, row, mapping) ==
  IF ~({"first_name", "middle_name", "last_name", "kendra", "zone", "email"}
         \subseteq DOMAIN mapping)
    THEN Raised("KeyError")
    ELSE generate_deterministic_unique_id_with_initials(
           RowGet(cols, row, mapping.first_name, EmptyStr),
           RowGet(cols, row, mapping.middle_name, EmptyStr),
           RowGet(cols, row, mapping.last_name, EmptyStr),
           RowGet(cols, row, mapping.kendra, EmptyStr),
           RowGet(cols, row, mapping.zone, EmptyStr),
           RowGet(cols, row, mapping.email, EmptyStr),
           RowGet(cols, row,
                  IF "phone" \in DOMAIN mapping THEN mapping.phone ELSE "",
                  EmptyStr))

\* tables of two columns: plain, with a repeated label, and with a column
\* already called Unique_ID
Layouts == {<<"name", "phone">>, <<"name", "name">>, <<"name", "Unique_ID">>}

\* the string "j", a missing cell, and a cell the generator fails on
Cells == {PyStr(<<106>>), NaN, PyList}

RowValues == [1..2 -> Cells]

AllKeys ==
  [first_name : {"name"}, middle_name : {""}, last_name : {"name", ""},
   kendra : {""}, zone : {""}, email : {"", "zone"}, phone : {"phone", ""}]

WithoutKey(m, key) == [f \in (DOMAIN m) \ {key} |-> m[f]]

\* every key present, or 'phone' missing, or 'kendra' missing
Mappings ==
  AllKeys \cup {WithoutKey(m, "phone") : m \in AllKeys}
          \cup {WithoutKey(m, "kendra") : m \in AllKeys}

\* TryRow over the rows and mappings of the model (merging with the empty
\* function makes TLC tabulate it once instead of at every application)
TryOutcome ==
  [c \in Layouts, r \in RowValues, m \in Mappings |-> TryRow(c, r, m)] @@ <<>>

\* the row number appended to each identifier
RECURSIVE LoopNumbered(_, _, _, _, _)
LoopNumbered(table, mapping, i, ids, errs) ==
  IF i > Len(table.rows) THEN [exc |-> "", ids |-> ids, errs |-> errs]
  ELSE LET o == TryOutcome[table.columns, table.rows[i], mapping]
       IN  IF o.exc = ""
             THEN LoopNumbered(table, mapping, i + 1,
                               Append(ids, o.ret \o Decimal(i)), errs)
           ELSE IF table.index # "range"
             THEN [exc |-> "TypeError", ids |-> ids, errs |-> errs]
           ELSE LoopNumbered(table, mapping, i + 1, Append(ids, ERROR),
                             Append(errs, i))

\* each value put in front of the list instead of at its end
RECURSIVE LoopPrepend(_, _, _, _, _)
LoopPrepend(table, mapping, i, ids, errs) ==
  IF i > Len(table.rows) THEN [exc |-> "", ids |-> ids, errs |-> errs]
  ELSE LET o == TryOutcome[table.columns, table.rows[i], mapping]
       IN  IF o.exc = ""
             THEN LoopPrepend(table, mapping, i + 1, <<o.ret>> \o ids, errs)
           ELSE IF table.index # "range"
             THEN [exc |-> "TypeError", ids |-> ids, errs |-> errs]
           ELSE LoopPrepend(table, mapping, i + 1, <<ERROR>> \o ids,
                            Append(errs, i))

\* the for loop from row i on; ids and errs are unique_ids and the st.error
\* reports so far.  In the handler, index + 1 is a TypeError when the index
\* labels are not numbers, and that exception leaves the function.
RECURSIVE Loop(_, _, _, _, _)
Loop(table, mapping, i, ids, errs) ==
  IF i > Len(table.rows) THEN [exc |-> "", ids |-> ids, errs |-> errs]
  ELSE LET o == TryOutcome[table.columns, table.rows[i], mapping]
       IN  IF o.exc = ""
             THEN Loop(table, mapping, i + 1, Append(ids, o.ret), errs)
           ELSE IF table.index # "range"
             THEN [exc |-> "TypeError", ids |-> ids, errs |-> errs]
           ELSE Loop(table, mapping, i + 1, Append(ids, ERROR),
                     Append(errs, i))

\* DataFrame.insert(0, 'Unique_ID', ids) refuses a label already present
Insert(table, ids) ==
  [columns |-> <<"Unique_ID">> \o table.columns,
   index   |-> table.index,
   rows    |-> [i \in 1..Len(table.rows) |-> <<PyStr(ids[i])>> \o table.rows[i]]]

NoTable == [columns |-> <<>>, index |-> "range", rows |-> <<>>]

\* line 70 and the return, once the loop has ended as l
InsertAndReturn(table, l) ==
  IF l.exc # ""
    THEN [exc |-> l.exc, ids |-> l.ids, errs |-> l.errs, ret |-> NoTable]
  ELSE IF \E c \in 1..Len(table.columns) : table.columns[c] = "Unique_ID"
    THEN [exc |-> "ValueError", ids |-> l.ids, errs |-> l.errs,
          ret |-> NoTable]
  ELSE [exc |-> "", ids |-> l.ids, errs |-> l.errs,
        ret |-> Insert(table, l.ids)]

process_dataframe(table, mapping) ==
  InsertAndReturn(table, Loop(table, mapping, 1, <<>>, <<>>))

(***************************************************************************)
(* The Statistics section of main                                          *)
(***************************************************************************)
UniqueIdColumn(table) == [i \in 1..Len(table.rows) |-> table.rows[i][1].s]

\* Series.nunique(): the number of distinct values (none of them is NaN)
nunique(col) == Cardinality({col[i] : i \in DOMAIN col})

\* every member of a group of equal values counted
DuplicateCountMembers(col) ==
  Cardinality({i \in DOMAIN col : \E j \in DOMAIN col : j # i /\ col[j] = col[i]})

DuplicateCount(col) == Len(col) - nunique(col)

\* DataFrame.duplicated(subset=['Unique_ID'], keep=False), as row positions
duplicated(col) ==
  {i \in DOMAIN col : \E j \in DOMAIN col : j # i /\ col[j] = col[i]}

\* Python's order on strings: by code point, a proper prefix first
RECURSIVE StrLeq(_, _)
StrLeq(a, b) ==
  IF a = <<>> THEN TRUE
  ELSE IF b = <<>> THEN FALSE
  ELSE IF Head(a) # Head(b) THEN Head(a) < Head(b)
  ELSE StrLeq(Tail(a), Tail(b))

\* the orders sort_values('Unique_ID') may give the rows in rws; the default
\* sort is not stable, so rows with equal keys come in any order
SortValues(col, rws) ==
  {q \in [1..Cardinality(rws) -> rws] :
     /\ \A i, j \in DOMAIN q : i # j => q[i] # q[j]
     /\ \A i \in DOMAIN q : i < Len(q) => StrLeq(col[q[i]], col[q[i + 1]])}

NoStats ==
  [total |-> 0, unique_count |-> 0, duplicate_count |-> 0, duplicates |-> <<>>]

(***************************************************************************)
(* Inputs                                                                  *)
(***************************************************************************)
MaxRows == 2

MaxFilled == 2

Fields ==
  {"first_name", "middle_name", "last_name", "kendra", "zone", "email", "phone"}

\* "j", "Dj", "5", the sharp s, a lone surrogate (U+D800), and values that
\* are not strings
FieldValues ==
  [first_name  |-> {PyStr(<<106>>), PyStr(<<68, 106>>), PyStr(<<53>>),
                    PyStr(<<223>>), PyStr(<<55296>>), NaN, PyInt(7), PyList},
   middle_name |-> {PyStr(<<106>>), None},
   last_name   |-> {PyStr(<<106>>), PyStr(<<68, 106>>), PyStr(<<53>>),
                    PyStr(<<223>>), PyStr(<<55296>>), NaN, PyInt(7), PyList},
   kendra      |-> {PyStr(<<68>>), NaN},
   zone        |-> {PyStr(<<53>>), PyInt(5)},
   email       |-> {PyStr(<<106>>), PyStr(<<68>>), NaN},
   phone       |-> {PyStr(<<53>>), PyInt(7), None}]

\* the argument tuples with at most MaxFilled arguments other than ""
ArgTuples ==
  {a \in [first_name  : FieldValues.first_name \cup {EmptyStr},
          middle_name : FieldValues.middle_name \cup {EmptyStr},
          last_name   : FieldValues.last_name \cup {EmptyStr},
          kendra      : FieldValues.kendra \cup {EmptyStr},
          zone        : FieldValues.zone \cup {EmptyStr},
          email       : FieldValues.email \cup {EmptyStr},
          phone       : FieldValues.phone \cup {EmptyStr}] :
     Cardinality({f \in Fields : a[f] # EmptyStr}) <= MaxFilled}

Tables ==
  UNION {[columns : Layouts, index : {"range", "label"},
          rows : [1..n -> RowValues]] : n \in 0..MaxRows}

NoArgs == [f \in Fields |-> EmptyStr]

NotCalled == [exc |-> "pending", ret |-> <<>>]

(***************************************************************************)
(* Behaviour                                                               *)
(***************************************************************************)
Init ==
  /\ df \in Tables
  /\ column_mapping \in Mappings
  /\ pc = "uploaded"
  /\ unique_ids = <<>>
  /\ processed_df = NoTable
  /\ st_errors = <<>>
  /\ stats = NoStats
  /\ args = NoArgs
  /\ result = NotCalled

\* processed_df = process_dataframe(df, column_mapping)
ProcessDataframe ==
  /\ pc = "uploaded"
  /\ \E r \in {process_dataframe(df, column_mapping)} :
         /\ pc' = IF r.exc = "" THEN "returned" ELSE "raised"
         /\ unique_ids' = r.ids
         /\ processed_df' = r.ret
         /\ st_errors' = r.errs
  /\ UNCHANGED <<args, result, df, column_mapping, stats>>

\* the three metrics and the table of duplicates
Statistics ==
  /\ pc = "returned"
  /\ LET col == UniqueIdColumn(processed_df)
     IN  \E q \in (IF DuplicateCount(col) > 0
                     THEN SortValues(col, duplicated(col)) ELSE {<<>>}) :
           stats' = [total           |-> Len(processed_df.rows),
                     unique_count    |-> nunique(col),
                     duplicate_count |-> DuplicateCount(col),
                     duplicates      |-> q]
  /\ pc' = "shown"
  /\ UNCHANGED <<args, result, df, column_mapping, unique_ids, processed_df,
                 st_errors>>

Next == ProcessDataframe \/ Statistics

Spec == Init /\ [][Next]_vars

\* one call of the generator on arguments drawn from ArgTuples
InitGen ==
  /\ args \in ArgTuples
  /\ result = NotCalled
  /\ df = NoTable
  /\ column_mapping = [f \in Fields |-> ""]
  /\ pc = "idle"
  /\ unique_ids = <<>>
  /\ processed_df = NoTable
  /\ st_errors = <<>>
  /\ stats = NoStats

Generate ==
  /\ result = NotCalled
  /\ pc = "idle"
  /\ result' = generate_deterministic_unique_id_with_initials(
                 args.first_name, args.middle_name, args.last_name,
                 args.kendra, args.zone, args.email, args.phone)
  /\ UNCHANGED <<args, df, column_mapping, pc, unique_ids, processed_df,
                 st_errors, stats>>

NextGen == Generate

SpecGen == InitGen /\ [][NextGen]_vars

(***************************************************************************)
(* Properties                                                              *)
(***************************************************************************)
Call(a) ==
  generate_deterministic_unique_id_with_initials(
    a.first_name, a.middle_name, a.last_name, a.kendra, a.zone, a.email,
    a.phone)

IsDigit(c) == c \in 48..57

IsUpperLetter(c) == c \in (65..90) \cup ((192..222) \ {215}) \cup {376, 924}

IsLetter(c) == c \in (65..90) \cup (97..122)

NoSurrogate(s) == \A i \in 1..Len(s) : ~IsSurrogate(s[i])

\* the value process_dataframe looks up for field f of row i
Lookup(f, i) ==
  RowGet(df.columns, df.rows[i],
         IF f \in DOMAIN column_mapping THEN column_mapping[f] ELSE "",
         EmptyStr)

\* the generator is reached for row i and none of its arguments makes the
\* normalisation fail
Callable(i) ==
  /\ (Fields \ {"phone"}) \subseteq DOMAIN column_mapping
  /\ \A f \in Fields : notna(Lookup(f, i)) # "raise"

NormalizedFields(i) == [f \in Fields |-> Normalize(Lookup(f, i))]

C2_ContactPrecedence ==
  result.exc = "" =>
    /\ Normalize(args.phone) # <<>> =>
         \A e \in FieldValues.email \cup {EmptyStr} :
           Call([args EXCEPT !.email = e]) = result
    /\ Normalize(args.phone) = <<>> =>
         Call([args EXCEPT !.phone = args.email]) = result
    /\ (Normalize(args.phone) = <<>> /\ Normalize(args.email) = <<>>) =>
         Call([args EXCEPT !.phone = EmptyStr, !.email = EmptyStr]) = result

\* a call that returned with both a phone and an email
C2_Witness ==
  /\ result.exc = ""
  /\ Normalize(args.phone) # <<>>
  /\ Normalize(args.email) # <<>>

\* C3: the identifier starts with upper(first[0]) upper(last[0]) when both
\* names are non-empty after normalisation and with '-' when one of them is
\* empty; an empty name is not an error.
C3_InitialsRule ==
  LET first == Normalize(args.first_name)
      last  == Normalize(args.last_name)
  IN  /\ (result.exc = "" /\ first # <<>> /\ last # <<>>) =>
           LET ini == upper(first[1]) \o upper(last[1])
           IN  /\ Len(result.ret) > Len(ini)
               /\ SubSeq(result.ret, 1, Len(ini)) = ini
      /\ (result.exc = "" /\ (first = <<>> \/ last = <<>>)) =>
           result.ret[1] = Dash
      /\ (/\ result # NotCalled
          /\ \A f \in Fields : /\ notna(args[f]) # "raise"
                               /\ NoSurrogate(args[f].s)) =>
           result.exc = ""

\* a call that returned with two names, the first one in lower case
C3_Witness ==
  /\ result.exc = ""
  /\ Normalize(args.first_name) # <<>>
  /\ Normalize(args.last_name) # <<>>
  /\ Normalize(args.first_name)[1] \in 97..122

\* C4 as stated: the identifier is no or two upper-case letters, a dash and
\* five decimal digits.
C4_TwoUpperCaseLetters ==
  result.exc = "" =>
    \E n \in {0, 2} :
      /\ Len(result.ret) = n + 6
      /\ \A i \in 1..n : IsUpperLetter(result.ret[i])
      /\ result.ret[n + 1] = Dash
      /\ \A i \in (n + 2)..(n + 6) : IsDigit(result.ret[i])

\* C4: the identifier ends with a dash and exactly five decimal digits; what
\* precedes the dash is empty when a name is empty and otherwise the
\* upper-cased first characters of the two names, which are two upper-case
\* letters when both characters are unaccented letters.
C4_Shape ==
  result.exc = "" =>
    LET first == Normalize(args.first_name)
        last  == Normalize(args.last_name)
        n     == Len(result.ret) - 6
    IN  /\ n >= 0
        /\ result.ret[n + 1] = Dash
        /\ \A i \in (n + 2)..(n + 6) : IsDigit(result.ret[i])
        /\ (first = <<>> \/ last = <<>>) => n = 0
        /\ (first # <<>> /\ last # <<>>) =>
             /\ n = Len(upper(first[1])) + Len(upper(last[1]))
             /\ (IsLetter(first[1]) /\ IsLetter(last[1])) =>
                  /\ n = 2
                  /\ IsUpperLetter(result.ret[1])
                  /\ IsUpperLetter(result.ret[2])

\* a call that returned an identifier starting with a digit
C4_Witness == result.exc = "" /\ IsDigit(result.ret[1])

\* the identifier or sentinel of row i
ExpectedId(i) ==
  LET o == TryOutcome[df.columns, df.rows[i], column_mapping]
  IN  IF o.exc = "" THEN o.ret ELSE ERROR

C6_FailureIsolation ==
  (/\ pc # "uploaded"
   /\ \E i \in 1..Len(df.rows) :
        TryOutcome[df.columns, df.rows[i], column_mapping].exc # "") =>
    /\ Len(unique_ids) = Len(df.rows)
    /\ \A i \in 1..Len(df.rows) : unique_ids[i] = ExpectedId(i)

\* the rows whose Unique_ID value occurs in another row
SharedRows(col) == {i \in DOMAIN col : \E j \in DOMAIN col : j # i /\ col[j] = col[i]}

\* C7 as stated, already on batches in which no row failed: the duplicate
\* count is the number of rows whose value is shared with another row.
C7_CountsEveryMember ==
  LET col == UniqueIdColumn(processed_df)
  IN  (pc = "shown" /\ \A i \in DOMAIN col : col[i] # ERROR) =>
        stats.duplicate_count = Cardinality(SharedRows(col))

\* C7: the duplicate count is the number of rows whose value already occurs
\* in an earlier row (a group of k equal values counts k - 1); the table of
\* duplicates lists every row whose value is shared.
C7_DuplicateCount ==
  pc = "shown" =>
    LET col == UniqueIdColumn(processed_df)
    IN  /\ stats.duplicate_count =
             Cardinality({i \in DOMAIN col : \E j \in 1..(i - 1) : col[j] = col[i]})
        /\ stats.duplicate_count > 0 =>
             /\ {stats.duplicates[k] : k \in DOMAIN stats.duplicates}
                  = SharedRows(col)
             /\ Len(stats.duplicates) = Cardinality(SharedRows(col))

\* statistics of a table in which a value occurs twice
C7_Witness == pc = "shown" /\ stats.duplicate_count > 0

\* C8: the distinct count leaves out the sentinel.
C8_DistinctNonError ==
  pc = "shown" =>
    LET col == UniqueIdColumn(processed_df)
    IN  stats.unique_count =
          Cardinality({col[i] : i \in DOMAIN col} \ {ERROR})

IsNull(v) == v.k \in {"nan", "none"}

\* field f of a row as C9 states it: "" when the key is missing, the column
\* name is empty or not a label of the table, or the cell is null
Defaulted(cols, row, m, f) ==
  IF f \notin DOMAIN m THEN EmptyStr
  ELSE IF m[f] = "" \/ ~(\E c \in 1..Len(cols) : cols[c] = m[f]) THEN EmptyStr
  ELSE IF IsNull(RowGet(cols, row, m[f], EmptyStr)) THEN EmptyStr
  ELSE RowGet(cols, row, m[f], EmptyStr)

IdOrSentinel(o) == IF o.exc = "" THEN o.ret ELSE ERROR

StatedOutcome ==
  [c \in Layouts, r \in RowValues, m \in Mappings |->
     IdOrSentinel(Call([f \in Fields |-> Defaulted(c, r, m, f)]))]
    @@ <<>>

AmendedOutcome ==
  [c \in Layouts, r \in RowValues, m \in Mappings |->
     IF ~((Fields \ {"phone"}) \subseteq DOMAIN m) THEN ERROR
     ELSE IdOrSentinel(Call([f \in Fields |-> Defaulted(c, r, m, f)]))]
    @@ <<>>

C10_BatchCompletes ==
  /\ pc # "raised"
  /\ pc \in {"returned", "shown"} =>
       /\ processed_df.columns = <<"Unique_ID">> \o df.columns
       /\ \A i \in 1..Len(df.rows) : Tail(processed_df.rows[i]) = df.rows[i]

====
